---- MODULE Spec2Model ----
(***************************************************************************)
(* Payment transaction lifecycle of the afepanou backend (payments app):   *)
(* PaymentTransaction / PaymentNotification rows, the MonCashService       *)
(* operations, the REST views that call them and the admin list actions.   *)
(*                                                                         *)
(* Conventions                                                             *)
(*   - a CharField is an integer: 0 is the empty string; the gateway's     *)
(*     transaction id of the payment with primary key i is GwTxId(i) and   *)
(*     the reference the gateway reports for it is GwRef(i).               *)
(*   - a DateTimeField is a number of minutes; NULL is the null value.     *)
(*   - the primary key of a transaction is its index in txs; its           *)
(*     external_order_id is a fresh value, modelled by the same index.     *)
(*   - the MonCash settings are taken to be configured, so                 *)
(*     MonCashService() itself does not raise.                             *)
(*   - history holds the PaymentStatusHistory rows; no code of the         *)
(*     repository creates, changes or deletes one, so every action leaves  *)
(*     it as it is.                                                        *)
(*   - the change form of the admin site is a manual editor of a row's     *)
(*     fields (status included); it is not one of the operations. The      *)
(*     admin list actions are.                                             *)
(*   - oauth is the cache entry of the gateway access token with its own   *)
(*     clock in seconds; shop holds the products, the cart of customer u1  *)
(*     and the items of the orders.                                        *)
(***************************************************************************)
EXTENDS Integers, Sequences, FiniteSets, TLC

\* ---- bounds of the model ------------------------------------------------
MaxPayments == 2
MaxRefunds == 2
NumOrders == 1
NumProcs == 2
MaxNotifs == 2
TickMinutes == 6
MaxClock == 12
OrderTotal == 2
MaxRetryCount == 4
SecondsStep == 10
MaxSeconds == 80
MaxTokens == 3
NumProducts == 2
MaxStock == 2

\* ---- program constants --------------------------------------------------
ExpiryMinutes == 10
DefaultMaxRetries == 3
CacheMargin == 10
MinCacheSeconds == 30
DefaultExpiresIn == 59

NULL == -1

Orders == 1..NumOrders
Procs == 1..NumProcs
Users == {"u1", "u2", "admin"}

\* Order.customer of the orders that exist
Customer(o) == IF o = 1 THEN "u1" ELSE "u2"

\* request.user.is_staff
is_staff(u) == u = "admin"

\* Order.total_amount
total_amount(o) == OrderTotal

GwTxId(i) == i
GwRef(i) == 100 + i

VARIABLES clock, orders, txs, notifs, procs, last, history, oauth, shop

vars == <<clock, orders, txs, notifs, procs, last, history, oauth, shop>>

TxIds == 1..Len(txs)

Products == 1..NumProducts

\* Product.product_type of the products that exist
product_type(p) == IF p = 1 THEN "physical" ELSE "service"

\* the cache without an access token; now is the time in seconds
NoToken ==
    [now |-> 0, token |-> 0, cached_at |-> 0, cached_until |-> 0, expires_in |-> 0,
     calls |-> 0, returned |-> 0, returned_at |-> 0, from_cache |-> FALSE]

\* products in stock, an empty cart and no order items
StockedShop ==
    [stock |-> [p \in Products |-> IF product_type(p) = "physical" THEN MaxStock ELSE NULL],
     status |-> [p \in Products |-> "available"],
     cart |-> [p \in Products |-> 0],
     items |-> [o \in Orders |-> [p \in Products |-> 0]]]

\* ---- PaymentTransaction -------------------------------------------------

\* PaymentTransaction.is_expired
is_expired(t, now) ==
    IF t.payment_expires_at # NULL THEN now > t.payment_expires_at ELSE FALSE

\* PaymentTransaction.is_pending
is_pending(t) == t.status \in {"initiated", "pending", "processing"}

\* PaymentTransaction.can_retry
can_retry(t) ==
    t.status \in {"failed", "expired"} /\ t.retry_count < t.max_retries

\* PaymentTransaction.save: the field defaults applied before the row is written
Save(t, now) ==
    LET t1 == IF t.payment_expires_at = NULL /\ t.status = "initiated"
              THEN [t EXCEPT !.payment_expires_at = now + ExpiryMinutes]
              ELSE t
    IN  IF t1.status = "success" /\ t1.payment_completed_at = NULL
        THEN [t1 EXCEPT !.payment_completed_at = now]
        ELSE t1

\* NewTx that takes the external_order_id from the order instead of a fresh
\* value
NewTx_OrderAsExternalId(id, order, ptype, amount, reference, payer_account, now) ==
    Save([id |-> id,
          order |-> order,
          external_order_id |-> order,
          payment_type |-> ptype,
          amount |-> amount,
          status |-> "initiated",
          transaction_id |-> 0,
          reference |-> reference,
          payment_token |-> 0,
          redirect_url |-> 0,
          payer_phone |-> 0,
          payer_account |-> payer_account,
          payment_completed_at |-> NULL,
          payment_expires_at |-> NULL,
          retry_count |-> 0,
          max_retries |-> DefaultMaxRetries,
          error_details |-> 0], now)

\* PaymentTransaction.objects.create(...): a new row with the field defaults
NewTx(id, order, ptype, amount, reference, payer_account, now) ==
    Save([id |-> id,
          order |-> order,
          external_order_id |-> id,
          payment_type |-> ptype,
          amount |-> amount,
          status |-> "initiated",
          transaction_id |-> 0,
          reference |-> reference,
          payment_token |-> 0,
          redirect_url |-> 0,
          payer_phone |-> 0,
          payer_account |-> payer_account,
          payment_completed_at |-> NULL,
          payment_expires_at |-> NULL,
          retry_count |-> 0,
          max_retries |-> DefaultMaxRetries,
          error_details |-> 0], now)

\* PaymentTransaction.get_gateway_url: 0 stands for None
get_gateway_url(t) == IF t.payment_token # 0 THEN 1 ELSE 0

\* the response of the last request that completed: the view, the HTTP status,
\* what the answer says, the gateway endpoints the request called
Resp(op, code, why, calls) == [op |-> op, code |-> code, why |-> why, calls |-> calls]

PaymentRows == {i \in TxIds : txs[i].payment_type = "payment"}
RefundRows == {i \in TxIds : txs[i].payment_type = "refund"}

IdleProc == [pc |-> "idle", order |-> 0, amount |-> 0, tx |-> 0, local |-> <<>>]

Init ==
    /\ clock = 0
    /\ orders = [o \in Orders |-> "pending"]
    /\ txs = <<>>
    /\ notifs = <<>>
    /\ procs = [p \in Procs |-> IdleProc]
    /\ last = Resp("none", 0, "none", {})
    /\ history = <<>>
    /\ oauth = NoToken
    /\ shop = StockedShop

\* time passes
Tick ==
    /\ clock + TickMinutes <= MaxClock
    /\ clock' = clock + TickMinutes
    /\ UNCHANGED <<orders, txs, notifs, procs, last, history, oauth, shop>>

\* ---- create_payment -----------------------------------------------------

\* the unsettled transactions of an order, PaymentTransaction.objects.filter(
\* order=order, status__in=['initiated', 'pending', 'processing'])
UnsettledOf(o) == {i \in TxIds : txs[i].order = o /\ is_pending(txs[i])}

Max(S) == CHOOSE m \in S : \A x \in S : x <= m

\* .first() under Meta.ordering = ['-created_at']: the row created last
FirstUnsettled(o) == IF UnsettledOf(o) = {} THEN 0 ELSE Max(UnsettledOf(o))

\* PaymentCheckCode without the serializer's test of the order's status
PaymentCheckCode_NoPaidCheck(user, o, amt) ==
    IF o \notin Orders THEN 400
    ELSE IF amt < 0 THEN 400
    ELSE IF Customer(o) # user THEN 403
    ELSE IF FirstUnsettled(o) # 0 /\ ~is_expired(txs[FirstUnsettled(o)], clock) THEN 409
    ELSE 0

\* views.create_payment up to the call of the service: serializer validation,
\* ownership check, existence check.  0 is returned when the request goes on.
PaymentCheckCode(user, o, amt) ==
    IF o \notin Orders THEN 400
    ELSE IF orders[o] = "paid" THEN 400
    ELSE IF amt < 0 THEN 400
    ELSE IF Customer(o) # user THEN 403
    ELSE IF FirstUnsettled(o) # 0 /\ ~is_expired(txs[FirstUnsettled(o)], clock) THEN 409
    ELSE 0

\* the HTTP status and the message of a refusal; 409 stands for the 400 that
\* carries 'Un paiement est déjà en cours pour cette commande'
PaymentCheckResp(code) ==
    CASE code = 403 -> Resp("create_payment", 403, "forbidden", {})
      [] code = 409 -> Resp("create_payment", 400, "payment_in_progress", {})
      [] OTHER -> Resp("create_payment", 400, "invalid", {})

PaymentCheck(p, user, o, amt) ==
    /\ procs[p].pc = "idle"
    /\ LET code == PaymentCheckCode(user, o, amt) IN
       IF code # 0
       THEN /\ last' = PaymentCheckResp(code)
            /\ UNCHANGED <<procs>>
       ELSE /\ procs' = [procs EXCEPT ![p] = [IdleProc EXCEPT !.pc = "checked", !.order = o, !.amount = amt]]
            /\ UNCHANGED <<last>>
    /\ UNCHANGED <<clock, orders, txs, notifs, history, oauth, shop>>

\* PaymentInsert with the existence check of the view made again, atomically
\* with the insertion
PaymentInsert_Rechecked(p) ==
    /\ procs[p].pc = "checked"
    /\ LET o == procs[p].order
           amount == IF procs[p].amount = 0 THEN total_amount(o) ELSE procs[p].amount
           id == Len(txs) + 1
       IN  IF orders[o] = "paid"
           THEN /\ procs' = [procs EXCEPT ![p] = IdleProc]
                /\ last' = Resp("create_payment", 500, "order_paid", {})
                /\ UNCHANGED <<txs>>
           ELSE IF \E i \in UnsettledOf(o) : ~is_expired(txs[i], clock)
           THEN /\ procs' = [procs EXCEPT ![p] = IdleProc]
                /\ last' = Resp("create_payment", 400, "payment_in_progress", {})
                /\ UNCHANGED <<txs>>
           ELSE /\ Cardinality(PaymentRows) < MaxPayments
                /\ LET t == NewTx(id, o, "payment", amount, 0, 0, clock) IN
                   /\ txs' = Append(txs, t)
                   /\ procs' = [procs EXCEPT ![p] = [@ EXCEPT !.pc = "inflight", !.tx = id, !.local = t]]
                /\ UNCHANGED <<last>>
    /\ UNCHANGED <<clock, orders, notifs, history, oauth, shop>>

\* MonCashService.create_payment up to the gateway call: the order is read
\* again and the local transaction is inserted
PaymentInsert(p) ==
    /\ procs[p].pc = "checked"
    /\ LET o == procs[p].order
           amount == IF procs[p].amount = 0 THEN total_amount(o) ELSE procs[p].amount
           id == Len(txs) + 1
       IN  IF orders[o] = "paid"
           THEN /\ procs' = [procs EXCEPT ![p] = IdleProc]
                /\ last' = Resp("create_payment", 500, "order_paid", {})
                /\ UNCHANGED <<txs>>
           ELSE /\ Cardinality(PaymentRows) < MaxPayments
                /\ LET t == NewTx(id, o, "payment", amount, 0, 0, clock) IN
                   /\ txs' = Append(txs, t)
                   /\ procs' = [procs EXCEPT ![p] = [@ EXCEPT !.pc = "inflight", !.tx = id, !.local = t]]
                /\ UNCHANGED <<last>>
    /\ UNCHANGED <<clock, orders, notifs, history, oauth, shop>>

\* what /v1/CreatePayment can answer: a transport error or non-2xx, a body
\* without payment_token, a payment_token object without token, a token
CreatePaymentAnswers == {"error", "no_payment_token", "empty_token", "token"}

\* PaymentReplyTx whose failure branches record the error and save the row
\* without setting its status
PaymentReplyTx_KeepsStatus(t, ans, now) ==
    IF ans \in {"token", "empty_token"}
    THEN Save([t EXCEPT !.payment_token = IF ans = "token" THEN 1 ELSE 0,
                        !.status = "pending",
                        !.redirect_url = IF ans = "token" THEN 1 ELSE t.redirect_url,
                        !.payment_expires_at = now + ExpiryMinutes], now)
    ELSE Save([t EXCEPT !.error_details = 1], now)

\* MonCashService.create_payment from the gateway's answer on: the in-memory
\* transaction is changed and saved with all its fields
PaymentReplyTx(t, ans, now) ==
    IF ans \in {"token", "empty_token"}
    THEN Save([t EXCEPT !.payment_token = IF ans = "token" THEN 1 ELSE 0,
                        !.status = "pending",
                        !.redirect_url = IF ans = "token" THEN 1 ELSE t.redirect_url,
                        !.payment_expires_at = now + ExpiryMinutes], now)
    ELSE Save([t EXCEPT !.status = "failed", !.error_details = 1], now)

PaymentReply(p, ans) ==
    /\ procs[p].pc = "inflight"
    /\ LET id == procs[p].tx
           t == PaymentReplyTx(procs[p].local, ans, clock)
       IN  /\ txs' = [txs EXCEPT ![id] = t]
           /\ last' = CASE ans \in {"token", "empty_token"} ->
                             Resp("create_payment", 201, "created", {"CreatePayment"})
                        [] ans = "no_payment_token" ->
                             Resp("create_payment", 400, "no_token", {"CreatePayment"})
                        [] OTHER ->
                             Resp("create_payment", 500, "gateway_error", {"CreatePayment"})
    /\ procs' = [procs EXCEPT ![p] = IdleProc]
    /\ UNCHANGED <<clock, orders, notifs, history, oauth, shop>>

\* ---- update_transaction_status -----------------------------------------

\* what /v1/RetrieveTransactionPayment and /v1/RetrieveOrderPayment can
\* answer: a transport error or non-2xx ("error"), a body without 'payment'
\* ("nopayment"), or a payment object with a message; full tells whether the
\* payment object carries transaction_id, reference and payer
GwMessages == {"successful", "failed", "cancelled", "pending"}
GwAnswers == [msg : {"error", "nopayment"}, full : {FALSE}]
             \cup [msg : GwMessages, full : BOOLEAN]

\* the payment details the two lookups end with: by transaction_id first, by
\* external_order_id when that gave nothing; "error" stands for None
PaymentDetails(t, a1, a2) ==
    IF t.transaction_id # 0 /\ a1.msg # "error" THEN a1
    ELSE IF t.external_order_id # 0 THEN a2
    ELSE [msg |-> "error", full |-> FALSE]

GwError == [msg |-> "error", full |-> FALSE]

\* what the gateway can answer about the row t: it holds a payment only for
\* an order id it received through /v1/CreatePayment
KnownAnswers(t) ==
    IF t.payment_type = "payment" THEN GwAnswers
    ELSE [msg : {"error", "nopayment"}, full : {FALSE}]

\* the pairs of answers to the two lookups for the row t: the second lookup is
\* made only when the first one raised or was not made
AnswersFor(t) ==
    {<<GwError, a>> : a \in KnownAnswers(t)}
    \cup (IF t.transaction_id = 0 THEN {}
          ELSE {<<a, GwError>> : a \in KnownAnswers(t) \ {GwError}})

HasPayment(d) == d.msg \in GwMessages

\* update_transaction_status that settles a successful payment only from the
\* "pending" status
update_transaction_status_FromPending(t, a1, a2, now) ==
    LET d == PaymentDetails(t, a1, a2) IN
    IF t.transaction_id = 0 /\ t.external_order_id = 0
    THEN [tx |-> t, paid |-> FALSE, ret |-> FALSE]
    ELSE IF HasPayment(d)
    THEN LET t1 == IF d.msg = "successful" /\ t.status = "pending"
                   THEN [t EXCEPT !.status = "success", !.payment_completed_at = now]
                   ELSE IF d.msg \in {"failed", "cancelled"}
                   THEN [t EXCEPT !.status = "failed"]
                   ELSE t
             t2 == IF d.full
                   THEN [t1 EXCEPT !.transaction_id = GwTxId(t.id),
                                   !.reference = GwRef(t.id),
                                   !.payer_phone = 1]
                   ELSE t1
         IN  [tx |-> Save(t2, now),
              paid |-> d.msg = "successful" /\ t.status = "pending"
                       /\ t.payment_type = "payment" /\ t.order # 0,
              ret |-> TRUE]
    ELSE [tx |-> t, paid |-> FALSE, ret |-> FALSE]

\* update_transaction_status that takes an unreachable gateway, or an answer
\* without payment details, for a failed payment
update_transaction_status_FailsUnknown(t, a1, a2, now) ==
    LET d == PaymentDetails(t, a1, a2) IN
    IF t.transaction_id = 0 /\ t.external_order_id = 0
    THEN [tx |-> t, paid |-> FALSE, ret |-> FALSE]
    ELSE IF HasPayment(d)
    THEN LET t1 == IF d.msg = "successful"
                   THEN [t EXCEPT !.status = "success", !.payment_completed_at = now]
                   ELSE IF d.msg \in {"failed", "cancelled"}
                   THEN [t EXCEPT !.status = "failed"]
                   ELSE t
             t2 == IF d.full
                   THEN [t1 EXCEPT !.transaction_id = GwTxId(t.id),
                                   !.reference = GwRef(t.id),
                                   !.payer_phone = 1]
                   ELSE t1
         IN  [tx |-> Save(t2, now),
              paid |-> d.msg = "successful" /\ t.payment_type = "payment" /\ t.order # 0,
              ret |-> TRUE]
    ELSE [tx |-> Save([t EXCEPT !.status = "failed"], now), paid |-> FALSE, ret |-> FALSE]

\* MonCashService.update_transaction_status on the in-memory transaction t:
\* the row that is saved, whether the order is set to paid, the return value
update_transaction_status(t, a1, a2, now) ==
    LET d == PaymentDetails(t, a1, a2) IN
    IF t.transaction_id = 0 /\ t.external_order_id = 0
    THEN [tx |-> t, paid |-> FALSE, ret |-> FALSE]
    ELSE IF HasPayment(d)
    THEN LET t1 == IF d.msg = "successful"
                   THEN [t EXCEPT !.status = "success", !.payment_completed_at = now]
                   ELSE IF d.msg \in {"failed", "cancelled"}
                   THEN [t EXCEPT !.status = "failed"]
                   ELSE t
             t2 == IF d.full
                   THEN [t1 EXCEPT !.transaction_id = GwTxId(t.id),
                                   !.reference = GwRef(t.id),
                                   !.payer_phone = 1]
                   ELSE t1
         IN  [tx |-> Save(t2, now),
              paid |-> d.msg = "successful" /\ t.payment_type = "payment" /\ t.order # 0,
              ret |-> TRUE]
    ELSE [tx |-> t, paid |-> FALSE, ret |-> FALSE]

\* the rows and orders after update_transaction_status(txs[i])
TxsAfterUpdate(i, a1, a2) ==
    [txs EXCEPT ![i] = update_transaction_status(txs[i], a1, a2, clock).tx]

OrdersAfterUpdate(i, a1, a2) ==
    IF update_transaction_status(txs[i], a1, a2, clock).paid
    THEN [orders EXCEPT ![txs[i].order] = "paid"]
    ELSE orders

\* views.check_payment_status: lookup by transaction_id (tid # 0) or else by
\* external_order_id, permission check, reconciliation
WithTransactionId(tid) == {i \in TxIds : txs[i].transaction_id = tid}
WithExternalOrderId(eid) == {i \in TxIds : txs[i].external_order_id = eid}

CheckPaymentStatus(user, tid, eid, a1, a2) ==
    /\ tid # 0 \/ eid # 0
    /\ LET found == IF tid # 0 THEN WithTransactionId(tid) ELSE WithExternalOrderId(eid) IN
       IF Cardinality(found) # 1
       THEN /\ last' = Resp("check_payment_status", 500, "lookup", {})
            /\ UNCHANGED <<txs, orders>>
       ELSE LET i == CHOOSE i \in found : TRUE IN
            IF Customer(txs[i].order) # user /\ ~is_staff(user)
            THEN /\ last' = Resp("check_payment_status", 403, "forbidden", {})
                 /\ UNCHANGED <<txs, orders>>
            ELSE /\ txs' = TxsAfterUpdate(i, a1, a2)
                 /\ orders' = OrdersAfterUpdate(i, a1, a2)
                 /\ last' = Resp("check_payment_status", 200,
                                 IF update_transaction_status(txs[i], a1, a2, clock).ret
                                 THEN "updated" ELSE "not_updated", {"RetrievePayment"})
    /\ UNCHANGED <<clock, notifs, procs, history, oauth, shop>>

\* ---- create_refund ------------------------------------------------------

\* existing_refunds of create_refund: the successful refunds whose reference
\* is the original's gateway transaction id
ExistingRefunds(orig) ==
    {j \in TxIds : /\ txs[j].reference = orig.transaction_id
                   /\ txs[j].payment_type = "refund"
                   /\ txs[j].status = "success"}

RECURSIVE SumAmounts(_)
SumAmounts(S) ==
    IF S = {} THEN 0
    ELSE LET j == CHOOSE j \in S : TRUE IN txs[j].amount + SumAmounts(S \ {j})

total_refunded(orig) == SumAmounts(ExistingRefunds(orig))

\* what /v1/CustomerStatus can answer for the payer of the original payment
CustomerAnswers == {"error", "inactive", "active"}

\* RefundRefusal without the comparison of the requested amount with the
\* original's, and with a cap that forgets the requested amount
RefundRefusal_NoAmountCheck(user, i, amt) ==
    IF i \notin TxIds \/ txs[i].status # "success" THEN "invalid"
    ELSE IF ~is_staff(user) /\ Customer(txs[i].order) # user THEN "forbidden"
    ELSE IF txs[i].payment_type # "payment" THEN "not_eligible"
    ELSE IF total_refunded(txs[i]) > txs[i].amount THEN "over_total"
    ELSE ""

\* the refusal of a refund before any row is written: RefundSerializer, the
\* ownership check of the view, then the checks of MonCashService.create_refund.
\* "" is returned when the refund transaction is created.
RefundRefusal(user, i, amt) ==
    IF i \notin TxIds \/ txs[i].status # "success" THEN "invalid"
    ELSE IF ~is_staff(user) /\ Customer(txs[i].order) # user THEN "forbidden"
    ELSE IF txs[i].payment_type # "payment" THEN "not_eligible"
    ELSE IF amt # 0 /\ amt > txs[i].amount THEN "over_original"
    ELSE IF total_refunded(txs[i]) + (IF amt = 0 THEN txs[i].amount ELSE amt) > txs[i].amount
         THEN "over_total"
    ELSE ""

RefundRefusalResp(why) ==
    CASE why = "invalid" -> Resp("create_refund", 400, why, {})
      [] why = "forbidden" -> Resp("create_refund", 403, why, {})
      [] OTHER -> Resp("create_refund", 500, why, {})

\* MonCashService.create_payout as create_refund calls it: the customer status
\* is fetched; an account that is not active raises MonCashAPIError; for an
\* active one the payout row is created with order=None, which the non-null
\* foreign key PaymentTransaction.order refuses (IntegrityError).  Either way
\* the call raises before /v1/Transfert is reached.
create_payout_raises(cust) ==
    IF cust = "active" THEN "IntegrityError" ELSE "MonCashAPIError"

\* views.create_payout (IsAdminUser) calling MonCashService.create_payout:
\* no row is ever inserted and /v1/Transfert is never called; the view
\* catches MonCashAPIError only, the IntegrityError leaves it unhandled
CreatePayout(user, cust) ==
    /\ last' = IF ~is_staff(user)
               THEN Resp("create_payout", 403, "forbidden", {})
               ELSE Resp("create_payout", 500, create_payout_raises(cust), {"CustomerStatus"})
    /\ UNCHANGED <<clock, orders, txs, notifs, procs, history, oauth, shop>>

\* the refund row create_refund leaves behind: created as initiated, then set
\* to failed by the exception handler
RefundTx(id, orig, amount, now) ==
    LET r == NewTx(id, orig.order, "refund", amount, orig.transaction_id,
                   IF orig.payer_account # 0 THEN orig.payer_account ELSE orig.payer_phone,
                   now)
    IN  Save([r EXCEPT !.status = "failed", !.error_details = 1], now)

CreateRefund(user, i, amt, cust) ==
    /\ LET why == RefundRefusal(user, i, amt) IN
       IF why # ""
       THEN /\ last' = RefundRefusalResp(why)
            /\ UNCHANGED <<txs>>
       ELSE /\ Cardinality(RefundRows) < MaxRefunds
            /\ LET amount == IF amt = 0 THEN txs[i].amount ELSE amt
                   id == Len(txs) + 1
               IN  txs' = Append(txs, RefundTx(id, txs[i], amount, clock))
            /\ last' = IF txs[i].payer_phone = 0
                       THEN Resp("create_refund", 500, "no_payer_phone", {})
                       ELSE Resp("create_refund", 500, create_payout_raises(cust), {"CustomerStatus"})
    /\ UNCHANGED <<clock, orders, notifs, procs, history, oauth, shop>>

\* ---- check_payout_status -------------------------------------------------

PayoutAnswers == {"error", "successful", "failed", "other"}

WithReference(ref) == {i \in TxIds : txs[i].reference = ref}

\* MonCashService.check_payout_status on the row found by reference
PayoutStatusTx(t, ans, now) ==
    Save(IF ans = "successful"
         THEN [t EXCEPT !.status = "success", !.payment_completed_at = now]
         ELSE IF ans = "failed"
         THEN [t EXCEPT !.status = "failed", !.error_details = 1]
         ELSE t, now)

CheckPayoutStatus(user, ref, ans) ==
    /\ IF ~is_staff(user)
       THEN /\ last' = Resp("check_payout_status", 403, "forbidden", {})
            /\ UNCHANGED <<txs>>
       ELSE IF ref = 0
       THEN /\ last' = Resp("check_payout_status", 400, "invalid", {})
            /\ UNCHANGED <<txs>>
       ELSE IF ans = "error"
       THEN /\ last' = Resp("check_payout_status", 500, "gateway_error", {"PrefundedTransactionStatus"})
            /\ UNCHANGED <<txs>>
       ELSE IF Cardinality(WithReference(ref)) > 1
       THEN /\ last' = Resp("check_payout_status", 500, "MultipleObjectsReturned", {"PrefundedTransactionStatus"})
            /\ UNCHANGED <<txs>>
       ELSE /\ last' = Resp("check_payout_status", 200, "status", {"PrefundedTransactionStatus"})
            /\ IF WithReference(ref) = {}
               THEN UNCHANGED <<txs>>
               ELSE LET i == CHOOSE i \in WithReference(ref) : TRUE IN
                    txs' = [txs EXCEPT ![i] = PayoutStatusTx(txs[i], ans, clock)]
    /\ UNCHANGED <<clock, orders, notifs, procs, history, oauth, shop>>

\* ---- expiry sweep --------------------------------------------------------

\* PaymentTransaction.mark_as_expired; save(update_fields=['status'])
mark_as_expired(t, now) ==
    IF is_pending(t) /\ is_expired(t, now) THEN [t EXCEPT !.status = "expired"] ELSE t

\* the statuses that are not unsettled
TerminalStatuses == {"success", "failed", "cancelled", "expired", "refunded"}

\* the queryset of MonCashService.cleanup_expired_transactions
ExpiredQuery == {i \in TxIds : /\ txs[i].status \in {"initiated", "pending"}
                               /\ txs[i].payment_expires_at # NULL
                               /\ txs[i].payment_expires_at < clock}

Cleanup(user) ==
    /\ IF ~is_staff(user)
       THEN /\ last' = Resp("cleanup", 403, "forbidden", {})
            /\ UNCHANGED <<txs>>
       ELSE /\ txs' = [i \in TxIds |-> IF i \in ExpiredQuery
                                       THEN mark_as_expired(txs[i], clock) ELSE txs[i]]
            /\ last' = Resp("cleanup", 200, "swept", {})
    /\ UNCHANGED <<clock, orders, notifs, procs, history, oauth, shop>>

\* the sweep as the requests that run beside it see it: the queryset is
\* evaluated once, when the loop starts, and holds the rows as they were read,
\* newest first; then mark_as_expired is called on each in-memory row in turn
RECURSIVE RowsNewestFirst(_)
RowsNewestFirst(S) ==
    IF S = {} THEN <<>>
    ELSE <<txs[Max(S)]>> \o RowsNewestFirst(S \ {Max(S)})

SweepRead(p, user) ==
    /\ procs[p].pc = "idle"
    /\ IF ~is_staff(user)
       THEN /\ last' = Resp("cleanup", 403, "forbidden", {})
            /\ UNCHANGED <<procs>>
       ELSE IF ExpiredQuery = {}
       THEN /\ last' = Resp("cleanup", 200, "swept", {})
            /\ UNCHANGED <<procs>>
       ELSE /\ procs' = [procs EXCEPT ![p] = [IdleProc EXCEPT !.pc = "sweeping",
                                                              !.local = RowsNewestFirst(ExpiredQuery)]]
            /\ UNCHANGED <<last>>
    /\ UNCHANGED <<clock, orders, txs, notifs, history, oauth, shop>>

\* one turn of the loop: mark_as_expired tests the in-memory row and writes
\* the status column alone, save(update_fields=['status'])
SweepWrite(p) ==
    /\ procs[p].pc = "sweeping"
    /\ LET t == Head(procs[p].local)
           rest == Tail(procs[p].local)
       IN  /\ txs' = IF mark_as_expired(t, clock).status # t.status
                     THEN [txs EXCEPT ![t.id].status = "expired"]
                     ELSE txs
           /\ IF rest = <<>>
              THEN /\ procs' = [procs EXCEPT ![p] = IdleProc]
                   /\ last' = Resp("cleanup", 200, "swept", {})
              ELSE /\ procs' = [procs EXCEPT ![p].local = rest]
                   /\ UNCHANGED <<last>>
    /\ UNCHANGED <<clock, orders, notifs, history, oauth, shop>>

\* ---- admin list actions --------------------------------------------------

\* PaymentTransactionAdmin.mark_as_success / mark_as_failed / mark_as_pending
\* on one selected row; queryset.update() writes status only
admin_status(action, t) ==
    CASE action = "mark_as_success" -> "success"
      [] action = "mark_as_failed" ->
            IF t.status \in {"failed", "success"} THEN t.status ELSE "failed"
      [] OTHER -> IF t.status = "initiated" THEN "pending" ELSE t.status

AdminActions == {"mark_as_success", "mark_as_failed", "mark_as_pending"}

AdminAction(action, sel) ==
    /\ sel # {}
    /\ txs' = [i \in TxIds |-> IF i \in sel
                               THEN [txs[i] EXCEPT !.status = admin_status(action, txs[i])]
                               ELSE txs[i]]
    /\ UNCHANGED <<clock, orders, notifs, procs, last, history, oauth, shop>>

\* ---- model methods called directly ---------------------------------------

\* PaymentTransaction.increment_retry; save(update_fields=['retry_count'])
increment_retry(t) == [t EXCEPT !.retry_count = t.retry_count + 1]

IncrementRetry(i) ==
    /\ txs[i].retry_count < MaxRetryCount
    /\ txs' = [txs EXCEPT ![i] = increment_retry(txs[i])]
    /\ last' = Resp("increment_retry", 0, IF can_retry(txs[i]) THEN "can_retry" ELSE "cannot_retry", {})
    /\ UNCHANGED <<clock, orders, notifs, procs, history, oauth, shop>>

\* ---- orders --------------------------------------------------------------

\* OrderStatusUpdateSerializer.validate_status
valid_transitions(current) ==
    CASE current = "pending" -> {"paid", "cancelled"}
      [] current = "paid" -> {"processing", "cancelled"}
      [] current = "processing" -> {"shipped", "cancelled"}
      [] current = "shipped" -> {"delivered", "cancelled"}
      [] OTHER -> {}

OrderStatuses == {"pending", "paid", "processing", "shipped", "delivered", "cancelled"}

\* VendorOrderViewSet.update_status
VendorUpdateStatus(o, value) ==
    /\ value \in valid_transitions(orders[o])
    /\ orders' = [orders EXCEPT ![o] = value]
    /\ UNCHANGED <<clock, txs, notifs, procs, last, history, oauth, shop>>

\* ---- payment_webhook -----------------------------------------------------

\* a key the request body does not hold
Absent == -2

\* an id that no transaction has
UnknownId == 99

\* the transaction payment_webhook matches with a body: by orderId when the
\* body has that key, else by transactionId; 0 when none is found
WebhookMatch(body) ==
    IF body.orderId # Absent
    THEN IF WithExternalOrderId(body.orderId) = {} THEN 0
         ELSE Max(WithExternalOrderId(body.orderId))
    ELSE IF body.transactionId # Absent
    THEN IF WithTransactionId(body.transactionId) = {} THEN 0
         ELSE Max(WithTransactionId(body.transactionId))
    ELSE 0

\* a notification row whose processed flag defaults to True
NewNotification_Processed(body) ==
    [raw_data |-> body, transaction |-> 0, processed |-> TRUE, processing_error |-> 0]

\* PaymentNotification.objects.create(raw_data=request.data, ...)
NewNotification(body) ==
    [raw_data |-> body, transaction |-> 0, processed |-> FALSE, processing_error |-> 0]

\* payment_webhook that applies the status the body claims instead of the
\* gateway's answer
Webhook_TrustsBody(body, a1, a2) ==
    /\ Len(notifs) < MaxNotifs
    /\ LET i == WebhookMatch(body)
           claimed == [msg |-> body.message, full |-> FALSE]
       IN
       IF i = 0
       THEN /\ notifs' = Append(notifs, NewNotification(body))
            /\ UNCHANGED <<txs, orders>>
       ELSE /\ notifs' = Append(notifs, [NewNotification(body) EXCEPT !.transaction = i,
                                                                     !.processed = TRUE])
            /\ txs' = TxsAfterUpdate(i, claimed, claimed)
            /\ orders' = OrdersAfterUpdate(i, claimed, claimed)
    /\ last' = Resp("payment_webhook", 200, "received",
                    IF WebhookMatch(body) = 0 THEN {} ELSE {"RetrievePayment"})
    /\ UNCHANGED <<clock, procs, history, oauth, shop>>

\* views.payment_webhook: the notification is stored, the transaction is
\* looked up and, when one is found, reconciled with the gateway
Webhook(body, a1, a2) ==
    /\ Len(notifs) < MaxNotifs
    /\ LET i == WebhookMatch(body) IN
       IF i = 0
       THEN /\ notifs' = Append(notifs, NewNotification(body))
            /\ UNCHANGED <<txs, orders>>
       ELSE /\ notifs' = Append(notifs, [NewNotification(body) EXCEPT !.transaction = i,
                                                                     !.processed = TRUE])
            /\ txs' = TxsAfterUpdate(i, a1, a2)
            /\ orders' = OrdersAfterUpdate(i, a1, a2)
    /\ last' = Resp("payment_webhook", 200, "received",
                    IF WebhookMatch(body) = 0 THEN {} ELSE {"RetrievePayment"})
    /\ UNCHANGED <<clock, procs, history, oauth, shop>>

WebhookBodies ==
    [orderId : {Absent, UnknownId} \cup TxIds,
     transactionId : {Absent, UnknownId} \cup {GwTxId(i) : i \in TxIds}]

\* webhook bodies that also carry a status of their own; the view reads no
\* key of request.data but orderId and transactionId
ClaimedMessages == {"successful", "failed"}

ClaimingBodies ==
    [orderId : {Absent} \cup TxIds,
     transactionId : {Absent} \cup {GwTxId(i) : i \in TxIds},
     message : ClaimedMessages]

\* ---- access token ----------------------------------------------------------

\* the lifetimes /oauth/token can report; NULL is an answer without expires_in
ExpiresIns == {NULL, 2 * SecondsStep, 4 * SecondsStep, 6 * SecondsStep}

\* what /oauth/token can answer: a transport error or non-2xx, or a body with
\* or without access_token
TokenAnswers == [ok : BOOLEAN, access_token : BOOLEAN, expires_in : ExpiresIns]

\* cache_timeout of get_access_token
cache_timeout(expires_in) ==
    IF expires_in - CacheMargin > MinCacheSeconds
    THEN expires_in - CacheMargin ELSE MinCacheSeconds

\* cache.get(cache_key): the entry is gone once its timeout has passed
CachedToken == IF oauth.now < oauth.cached_until THEN oauth.token ELSE 0

\* MonCashService.get_access_token
get_access_token(ans) ==
    /\ IF CachedToken # 0
       THEN oauth' = [oauth EXCEPT !.returned = CachedToken,
                                   !.returned_at = oauth.now,
                                   !.from_cache = TRUE]
       ELSE /\ oauth.calls < MaxTokens
            /\ IF ~ans.ok \/ ~ans.access_token
               THEN oauth' = [oauth EXCEPT !.calls = oauth.calls + 1,
                                           !.returned = 0,
                                           !.returned_at = oauth.now,
                                           !.from_cache = FALSE]
               ELSE LET expires_in == IF ans.expires_in = NULL
                                      THEN DefaultExpiresIn ELSE ans.expires_in
                    IN  oauth' = [now |-> oauth.now,
                                  token |-> oauth.calls + 1,
                                  cached_at |-> oauth.now,
                                  cached_until |-> oauth.now + cache_timeout(expires_in),
                                  expires_in |-> expires_in,
                                  calls |-> oauth.calls + 1,
                                  returned |-> oauth.calls + 1,
                                  returned_at |-> oauth.now,
                                  from_cache |-> FALSE]
    /\ UNCHANGED <<clock, orders, txs, notifs, procs, last, history, shop>>

\* seconds pass
TokenTick ==
    /\ oauth.now + SecondsStep <= MaxSeconds
    /\ oauth' = [oauth EXCEPT !.now = oauth.now + SecondsStep]
    /\ UNCHANGED <<clock, orders, txs, notifs, procs, last, history, shop>>

\* ---- deletion of an order -------------------------------------------------

\* what is left of the transaction with primary key id when its row is
\* deleted: the key is not used again and no query finds a row for it
DeletedRow(id) ==
    [id |-> id, order |-> 0, external_order_id |-> 0, payment_type |-> "deleted",
     amount |-> 0, status |-> "deleted", transaction_id |-> 0, reference |-> 0,
     payment_token |-> 0, redirect_url |-> 0, payer_phone |-> 0, payer_account |-> 0,
     payment_completed_at |-> NULL, payment_expires_at |-> NULL, retry_count |-> 0,
     max_retries |-> 0, error_details |-> 0]

\* OrderViewSet.destroy (DELETE orders/<id>/): the order is looked up in
\* get_queryset, the orders of the requesting customer, and deleted; the
\* deletion cascades to the PaymentTransaction rows of the order
\* (on_delete=CASCADE) and from them to their PaymentNotification rows
OrderDestroy(user, o) ==
    /\ orders[o] # "deleted"
    /\ IF Customer(o) # user
       THEN /\ last' = Resp("order_destroy", 404, "not_found", {})
            /\ UNCHANGED <<orders, txs, notifs>>
       ELSE /\ orders' = [orders EXCEPT ![o] = "deleted"]
            /\ txs' = [i \in TxIds |-> IF txs[i].order = o THEN DeletedRow(i) ELSE txs[i]]
            /\ notifs' = SelectSeq(notifs, LAMBDA n : n.transaction = 0
                                                      \/ txs[n.transaction].order # o)
            /\ last' = Resp("order_destroy", 204, "deleted", {})
    /\ UNCHANGED <<clock, procs, history, oauth, shop>>

\* OrderViewSet.update / partial_update (PUT, PATCH orders/<id>/) with
\* OrderDetailSerializer: the order is looked up among the requesting
\* customer's orders; status is a writable choice field of the serializer and
\* no transition is checked
OrderUpdate(user, o, value) ==
    /\ orders[o] # "deleted"
    /\ IF Customer(o) # user
       THEN /\ last' = Resp("order_update", 404, "not_found", {})
            /\ UNCHANGED <<orders>>
       ELSE /\ orders' = [orders EXCEPT ![o] = value]
            /\ last' = Resp("order_update", 200, "updated", {})
    /\ UNCHANGED <<clock, txs, notifs, procs, history, oauth, shop>>

\* ---- cart and order creation ---------------------------------------------

\* CartViewSet.add_item / CartItemSerializer.create: the quantity is added to
\* the cart item of the product, or a new cart item is made
AddToCart(p, q) ==
    /\ shop.cart[p] + q <= MaxStock
    /\ shop' = [shop EXCEPT !.cart[p] = shop.cart[p] + q]
    /\ last' = Resp("add_item", 201, "added", {})
    /\ UNCHANGED <<clock, orders, txs, notifs, procs, history, oauth>>

\* signals.update_product_stock for one item of the order
StockAfterItem(sh, p, quantity) ==
    IF product_type(p) = "physical" /\ sh.stock[p] # NULL /\ quantity > 0
    THEN [sh EXCEPT !.stock[p] = sh.stock[p] - quantity,
                    !.status[p] = IF sh.stock[p] - quantity <= 0
                                  THEN "out_of_stock" ELSE sh.status[p]]
    ELSE sh

\* signals.update_product_stock(created=True): the loop over
\* instance.items.all(), the order items stored when the signal is sent
RECURSIVE StockAfterItems(_, _, _)
StockAfterItems(sh, o, P) ==
    IF P = {} THEN sh
    ELSE LET p == CHOOSE p \in P : TRUE
         IN  StockAfterItems(StockAfterItem(sh, p, sh.items[o][p]), o, P \ {p})

update_product_stock(sh, o) == StockAfterItems(sh, o, Products)

\* OrderViewSet.create / OrderCreateSerializer.create for the customer of
\* order o: Order.objects.create sends post_save, then the order items are
\* made from the cart and the cart is emptied
OrderCreate(user, o) ==
    /\ orders[o] = "none"
    /\ Customer(o) = user
    /\ IF \A p \in Products : shop.cart[p] = 0
       THEN /\ last' = Resp("order_create", 400, "empty_cart", {})
            /\ UNCHANGED <<orders, shop>>
       ELSE /\ orders' = [orders EXCEPT ![o] = "pending"]
            /\ shop' = [update_product_stock(shop, o) EXCEPT
                           !.items[o] = shop.cart,
                           !.cart = [p \in Products |-> 0]]
            /\ last' = Resp("order_create", 201, "created", {})
    /\ UNCHANGED <<clock, txs, notifs, procs, history, oauth>>

\* ---- specifications ------------------------------------------------------

CreatePaymentBy(P, U) ==
    \/ \E p \in P, u \in U, o \in Orders \cup {0}, a \in {0, OrderTotal} : PaymentCheck(p, u, o, a)
    \/ \E p \in P : PaymentInsert(p)
    \/ \E p \in P, ans \in CreatePaymentAnswers : PaymentReply(p, ans)

VendorSteps == \E o \in Orders, value \in OrderStatuses : VendorUpdateStatus(o, value)

CleanupBy(U) == \E u \in U : Cleanup(u)

SweepBy(P, U) ==
    \/ \E p \in P, u \in U : SweepRead(p, u)
    \/ \E p \in P : SweepWrite(p)

\* the lookups of check_payment_status: by gateway transaction id, or by
\* external order id
Lookups == {<<GwTxId(i), 0>> : i \in TxIds} \cup {<<0, i>> : i \in TxIds}

LookupRow(l) ==
    LET found == IF l[1] # 0 THEN WithTransactionId(l[1]) ELSE WithExternalOrderId(l[2])
    IN  IF found = {} THEN 0 ELSE Max(found)

\* the gateway is asked only when the lookup finds a row the user may see
LookupAnswers(u, l) ==
    IF LookupRow(l) = 0 THEN {<<GwError, GwError>>}
    ELSE IF Customer(txs[LookupRow(l)].order) # u /\ ~is_staff(u) THEN {<<GwError, GwError>>}
    ELSE AnswersFor(txs[LookupRow(l)])

ReconcileBy(U) ==
    \E u \in U, l \in Lookups :
       \E a \in LookupAnswers(u, l) : CheckPaymentStatus(u, l[1], l[2], a[1], a[2])

RefundAmounts == 0..(OrderTotal + 1)

RefundBy(U) ==
    \E u \in U, i \in TxIds, amt \in RefundAmounts :
       \E cust \in (IF RefundRefusal(u, i, amt) = "" /\ txs[i].payer_phone # 0
                    THEN CustomerAnswers ELSE {"error"}) :
          CreateRefund(u, i, amt, cust)

PayoutStatusBy(U) ==
    \E u \in U, ref \in {GwTxId(i) : i \in TxIds} \cup {GwRef(i) : i \in TxIds},
       ans \in PayoutAnswers : CheckPayoutStatus(u, ref, ans)

AdminBy(A) ==
    \E action \in A, i \in TxIds : AdminAction(action, {i})

WebhookBodyAnswers(body) ==
    IF WebhookMatch(body) = 0 THEN {<<GwError, GwError>>} ELSE AnswersFor(txs[WebhookMatch(body)])

WebhookSteps ==
    \E body \in WebhookBodies :
       \E a \in WebhookBodyAnswers(body) : Webhook(body, a[1], a[2])

RetrySteps == \E i \in TxIds : IncrementRetry(i)

\* every operation a view or the admin site offers, by every user
Next ==
    \/ Tick
    \/ CreatePaymentBy(Procs, Users)
    \/ ReconcileBy(Users)
    \/ RefundBy(Users)
    \/ PayoutStatusBy(Users)
    \/ CleanupBy(Users)
    \/ AdminBy(AdminActions)
    \/ VendorSteps
    \/ WebhookSteps

Spec == Init /\ [][Next]_vars

\* concurrent create_payment requests, time and the expiry sweep
NextPay ==
    \/ Tick
    \/ CreatePaymentBy(Procs, Users)
    \/ CleanupBy({"admin"})

SpecPay == Init /\ [][NextPay]_vars

\* one payment, reconciled or marked by an administrator, then refunded
NextRefund ==
    \/ (CreatePaymentBy({1}, {"u1"}) /\ Len(txs') <= 1)
    \/ (ReconcileBy({"admin"}) /\ RefundRows = {})
    \/ RefundBy(Users)
    \/ AdminBy({"mark_as_success"})

SpecRefund == Init /\ [][NextRefund]_vars

\* payments of one client and webhooks
NextWebhook ==
    \/ CreatePaymentBy({1}, {"u1"})
    \/ WebhookSteps

SpecWebhook == Init /\ [][NextWebhook]_vars

\* one payment, status checks by its client, time, and the sweep run by a
\* second worker
NextSweep ==
    \/ Tick
    \/ (CreatePaymentBy({1}, {"u1"}) /\ Len(txs') <= 1)
    \/ ReconcileBy({"u1"})
    \/ SweepBy({2}, {"admin"})

SpecSweep == Init /\ [][NextSweep]_vars

\* the rows the status column can hold when a sweep starts: the code sets
\* initiated, pending, success, failed and expired; processing, cancelled and
\* refunded are choices of the column that the admin change form can set
Statuses == {"initiated", "pending", "processing"} \cup TerminalStatuses

Expiries == {ExpiryMinutes \div 2, ExpiryMinutes}

StoredRow(id, st, exp) ==
    [NewTx(id, 1, "payment", OrderTotal, 0, 0, 0)
        EXCEPT !.status = st,
               !.payment_expires_at = exp,
               !.payment_completed_at = IF st = "success" THEN 0 ELSE NULL]

RowTables ==
    {<<StoredRow(1, s, e)>> : s \in Statuses, e \in Expiries}
    \cup {<<StoredRow(1, r[1], r[2]), StoredRow(2, r[3], r[4])>> :
             r \in Statuses \X Expiries \X Statuses \X Expiries}

InitStored ==
    /\ clock = 0
    /\ orders = [o \in Orders |-> "pending"]
    /\ txs \in RowTables
    /\ notifs = <<>>
    /\ procs = [p \in Procs |-> IdleProc]
    /\ last = Resp("none", 0, "none", {})
    /\ history = <<>>
    /\ oauth = NoToken
    /\ shop = StockedShop

\* stored rows, time, and the sweep run alone
NextStored ==
    \/ Tick
    \/ CleanupBy(Users)

SpecStored == InitStored /\ [][NextStored]_vars

ClaimingWebhookSteps ==
    \E body \in ClaimingBodies :
       \E a \in WebhookBodyAnswers(body) : Webhook(body, a[1], a[2])

\* one payment and webhooks whose body claims a status
NextClaimed ==
    \/ (CreatePaymentBy({1}, {"u1"}) /\ Len(txs') <= 1)
    \/ ClaimingWebhookSteps

SpecClaimed == Init /\ [][NextClaimed]_vars

\* one payment and every operation that writes the status of an existing
\* row: the gateway's reply, status checks, the sweep, the admin list
\* actions, payout status checks and increment_retry
NextSettled ==
    \/ Tick
    \/ (CreatePaymentBy({1}, {"u1"}) /\ Len(txs') <= 1)
    \/ ReconcileBy({"u1"})
    \/ CleanupBy({"admin"})
    \/ AdminBy(AdminActions)
    \/ PayoutStatusBy({"admin"})
    \/ RetrySteps

SpecSettled == Init /\ [][NextSettled]_vars

OrderDestroyBy(U) == \E u \in U, o \in Orders : OrderDestroy(u, o)

\* one payment with its status checks and webhooks, and requests to delete
\* the order, made while no create_payment is in flight; no payment is
\* requested for an order that is gone
NextOrders ==
    \/ Tick
    \/ (/\ \A o \in Orders : orders[o] # "deleted"
        /\ CreatePaymentBy({1}, {"u1"})
        /\ Len(txs') <= 1)
    \/ ReconcileBy({"u1"})
    \/ (OrderDestroyBy(Users) /\ \A p \in Procs : procs[p].pc = "idle")

SpecOrders == Init /\ [][NextOrders]_vars

CreatePayoutBy(U) == \E u \in U, cust \in CustomerAnswers : CreatePayout(u, cust)

\* one payment with its status checks, and the payouts and payout status
\* checks of the administrators
NextPayout ==
    \/ Tick
    \/ (CreatePaymentBy({1}, {"u1"}) /\ Len(txs') <= 1)
    \/ ReconcileBy({"u1"})
    \/ CreatePayoutBy(Users)
    \/ PayoutStatusBy({"admin"})

SpecPayout == Init /\ [][NextPayout]_vars

\* requests for the access token while seconds pass
NextToken ==
    \/ TokenTick
    \/ \E ans \in TokenAnswers : get_access_token(ans)

SpecToken == Init /\ [][NextToken]_vars

\* one payment with its status checks, and the refund and payout requests of
\* every user
NextRestricted ==
    \/ (CreatePaymentBy({1}, {"u1"}) /\ Len(txs') <= 1)
    \/ ReconcileBy({"u1"})
    \/ RefundBy(Users)
    \/ CreatePayoutBy(Users)

SpecRestricted == Init /\ [][NextRestricted]_vars

OrderUpdateBy(U) ==
    \E u \in U, o \in Orders, value \in OrderStatuses : OrderUpdate(u, o, value)

\* one payment, and the update and delete requests the customer order API
\* routes, made while no create_payment is in flight
NextCustomerOrders ==
    \/ (/\ \A o \in Orders : orders[o] # "deleted"
        /\ CreatePaymentBy({1}, {"u1"})
        /\ Len(txs') <= 1)
    \/ OrderUpdateBy(Users)
    \/ (OrderDestroyBy(Users) /\ \A p \in Procs : procs[p].pc = "idle")

SpecCustomerOrders == Init /\ [][NextCustomerOrders]_vars

\* one payment with its status checks, and the status updates of the vendor
NextVendor ==
    \/ (CreatePaymentBy({1}, {"u1"}) /\ Len(txs') <= 1)
    \/ ReconcileBy({"u1"})
    \/ VendorSteps

SpecVendor == Init /\ [][NextVendor]_vars

\* the shop before any order is placed: products with stock, an empty cart
InitCart ==
    /\ clock = 0
    /\ orders = [o \in Orders |-> "none"]
    /\ txs = <<>>
    /\ notifs = <<>>
    /\ procs = [p \in Procs |-> IdleProc]
    /\ last = Resp("none", 0, "none", {})
    /\ history = <<>>
    /\ oauth = NoToken
    /\ \E n \in 1..MaxStock :
          shop = [StockedShop EXCEPT
                     !.stock = [p \in Products |->
                                   IF product_type(p) = "physical" THEN n ELSE NULL]]

\* customer u1 fills the cart and orders
NextCart ==
    \/ \E p \in Products, q \in 1..MaxStock : AddToCart(p, q)
    \/ \E o \in Orders : OrderCreate("u1", o)

SpecCart == InitCart /\ [][NextCart]_vars

\* the payments of one client for one order, with status checks made while
\* no create_payment is in flight; time passes and no sweep is run
NextRepay ==
    \/ Tick
    \/ CreatePaymentBy({1}, {"u1"})
    \/ (ReconcileBy({"u1"}) /\ \A p \in Procs : procs[p].pc = "idle")

SpecRepay == Init /\ [][NextRepay]_vars

\* the payments of one client with the refunds requested for them, and the
\* administrator marking rows as successful
NextRefundCaps ==
    \/ CreatePaymentBy({1}, {"u1"})
    \/ RefundBy({"u1"})
    \/ AdminBy({"mark_as_success"})

SpecRefundCaps == Init /\ [][NextRefundCaps]_vars

\* stored rows with time advancing and the administrator's sweep run again
\* and again
SpecStoredFair ==
    /\ InitStored
    /\ [][NextStored]_vars
    /\ WF_vars(Tick)
    /\ WF_vars(Cleanup("admin"))

\* payments of one client and direct calls of increment_retry
NextRetry ==
    \/ Tick
    \/ CreatePaymentBy({1}, {"u1"})
    \/ CleanupBy({"admin"})
    \/ RetrySteps

SpecRetry == Init /\ [][NextRetry]_vars
\* ---- properties ----------------------------------------------------------

NotifIds == 1..Len(notifs)


\* C1: in every reachable state, whatever operations ran (increment_retry
\* included), each transaction's retry_count is at most its max_retries.
C1_RetryCountBounded ==
    \A i \in TxIds : txs[i].retry_count <= txs[i].max_retries

\* C2: a retry of a transaction that can be retried (status failed or expired,
\* retry_count below max_retries) sets its status back to initiated and adds
\* exactly one to retry_count; on any other transaction it changes nothing.
C2_RetryEffect ==
    [][\A i \in TxIds :
          IncrementRetry(i) =>
             IF can_retry(txs[i])
             THEN /\ txs'[i].status = "initiated"
                  /\ txs'[i].retry_count = txs[i].retry_count + 1
             ELSE txs'[i] = txs[i]]_vars

\* C3: in every reachable state, admin actions included, the amounts of the
\* successful refunds that reference a payment add up to at most the amount
\* of that payment.
C3_RefundsWithinOriginal ==
    \A i \in TxIds :
       txs[i].payment_type = "payment" => total_refunded(txs[i]) <= txs[i].amount

\* C4: a refund request for a successful payment whose amount is greater than
\* the payment's amount is refused, with the domain error of create_refund
\* when the requester may refund that payment; it creates no transaction and
\* calls no gateway endpoint.
C4_OverAmountRefused ==
    [][\A u \in Users, i \in TxIds, amt \in RefundAmounts :
          (/\ txs[i].status = "success"
           /\ txs[i].payment_type = "payment"
           /\ amt > txs[i].amount
           /\ \E cust \in CustomerAnswers : CreateRefund(u, i, amt, cust))
          => /\ txs' = txs
             /\ last'.op = "create_refund"
             /\ last'.calls = {}
             /\ last'.code \in {403, 500}
             /\ (is_staff(u) \/ Customer(txs[i].order) = u)
                   => (last'.code = 500 /\ last'.why = "over_original")]_vars

\* a refund request above the amount of a successful payment was refused
C4_Witness ==
    /\ last.op = "create_refund"
    /\ last.why = "over_original"
    /\ \E i \in TxIds : /\ txs[i].status = "success"
                        /\ txs[i].payment_type = "payment"
                        /\ txs[i].amount < OrderTotal + 1

\* C5: a create-payment request by the owner of an unpaid order that has an
\* unsettled transaction (initiated, pending or processing) that is not
\* expired is refused and goes no further, whatever other transactions the
\* order has.
C5_InProgressRefused ==
    [][\A p \in Procs, u \in Users, o \in Orders, a \in {0, OrderTotal} :
          (/\ \E i \in UnsettledOf(o) : ~is_expired(txs[i], clock)
           /\ PaymentCheck(p, u, o, a))
          => /\ procs'[p].pc = "idle"
             /\ last'.op = "create_payment"
             /\ last'.code \in {400, 403}]_vars

\* C6: the insertion that follows a passed existence check is made without
\* looking at the order's transactions again: a request that passed the check
\* of an unpaid order inserts its initiated transaction, so two requests whose
\* check and insertion interleave both insert one.
C6_InsertNotRechecked ==
    [][\A p \in Procs :
          (/\ procs[p].pc = "checked"
           /\ procs'[p].pc # "checked"
           /\ orders[procs[p].order] # "paid")
          => /\ Len(txs') = Len(txs) + 1
             /\ txs'[Len(txs')].order = procs[p].order
             /\ txs'[Len(txs')].status = "initiated"
             /\ procs'[p].pc = "inflight"]_vars

\* two unsettled payment transactions of one order, neither expired
C6_Witness ==
    \E i, j \in TxIds :
       /\ i < j
       /\ txs[i].order = txs[j].order
       /\ txs[i].payment_type = "payment" /\ txs[j].payment_type = "payment"
       /\ is_pending(txs[i]) /\ is_pending(txs[j])
       /\ ~is_expired(txs[i], clock) /\ ~is_expired(txs[j], clock)

\* C7: whenever create_payment answers with success, the transaction it
\* created is pending, has a non-empty payment token and a non-empty redirect
\* URL, and expires ten minutes after the moment of the answer.
C7_SuccessShape ==
    [][\A p \in Procs :
          (/\ procs[p].pc = "inflight"
           /\ procs'[p].pc = "idle"
           /\ last'.op = "create_payment"
           /\ last'.code = 201)
          => LET t == txs'[procs[p].tx] IN
             /\ t.status = "pending"
             /\ t.payment_token # 0
             /\ t.redirect_url # 0
             /\ t.payment_expires_at = clock + ExpiryMinutes]_vars

\* C8: a webhook whose orderId is the external_order_id of a payment
\* transaction, for a payment the gateway reports as successful, leaves that
\* transaction with status success and a completion time, and its order paid.
C8_WebhookSettles ==
    [][\A body \in WebhookBodies :
          \A a \in WebhookBodyAnswers(body) :
             (/\ body.orderId \in TxIds
              /\ txs[body.orderId].payment_type = "payment"
              /\ PaymentDetails(txs[body.orderId], a[1], a[2]).msg = "successful"
              /\ Webhook(body, a[1], a[2]))
             => /\ txs'[body.orderId].status = "success"
                /\ txs'[body.orderId].payment_completed_at # NULL
                /\ orders'[txs[body.orderId].order] = "paid"]_vars

\* a webhook named a payment by its order id and was processed, and the
\* payment is successful with its order paid
C8_Witness ==
    \E n \in NotifIds :
       /\ notifs[n].processed
       /\ notifs[n].raw_data.orderId \in TxIds
       /\ notifs[n].transaction = notifs[n].raw_data.orderId
       /\ txs[notifs[n].transaction].payment_type = "payment"
       /\ txs[notifs[n].transaction].status = "success"
       /\ txs[notifs[n].transaction].payment_completed_at # NULL
       /\ orders[txs[notifs[n].transaction].order] = "paid"

\* C9: a webhook is matched to the transaction its transactionId names and,
\* when that names none, to the one its orderId names; a notification that
\* carries both ids is matched whenever either names an existing transaction.
C9_MatchByEitherId ==
    [][\A body \in WebhookBodies :
          \A a \in WebhookBodyAnswers(body) :
             Webhook(body, a[1], a[2])
             => LET n == notifs'[Len(notifs')] IN
                IF WithTransactionId(body.transactionId) # {}
                THEN n.transaction \in WithTransactionId(body.transactionId)
                ELSE IF WithExternalOrderId(body.orderId) # {}
                THEN n.transaction \in WithExternalOrderId(body.orderId)
                ELSE n.transaction = 0]_vars

\* one webhook call appends one notification with the body it received and
\* leaves the stored ones alone; unmatched, it is unprocessed and unlinked
WebhookStoresOne ==
    \A body \in WebhookBodies :
       \A a \in WebhookBodyAnswers(body) :
          Webhook(body, a[1], a[2])
          => /\ Len(notifs') = Len(notifs) + 1
             /\ \A n \in NotifIds : notifs'[n] = notifs[n]
             /\ notifs'[Len(notifs')].raw_data = body
             /\ WebhookMatch(body) = 0
                   => (/\ ~notifs'[Len(notifs')].processed
                       /\ notifs'[Len(notifs')].transaction = 0)

\* C10: every webhook call stores exactly one notification that holds the
\* request body; one that matches no transaction stays unprocessed and linked
\* to none; a notification that is processed is linked to a transaction.
C10_NotificationStored ==
    /\ [](\A n \in NotifIds : notifs[n].processed => notifs[n].transaction \in TxIds)
    /\ [][WebhookStoresOne]_vars

\* a webhook that named no transaction is stored, unprocessed and unlinked,
\* next to one that was matched and processed
C10_Witness ==
    /\ \E n \in NotifIds : /\ notifs[n].raw_data.orderId = UnknownId
                           /\ ~notifs[n].processed
                           /\ notifs[n].transaction = 0
    /\ \E n \in NotifIds : notifs[n].processed /\ notifs[n].transaction \in TxIds

\* the identifiers of a webhook body
Identifiers(body) == [orderId |-> body.orderId, transactionId |-> body.transactionId]

\* C11: what a webhook does to the transactions and the orders is decided by
\* the transaction its identifiers name and by the gateway's answers to the
\* status re-fetch alone: the other fields of the body, a claimed status
\* among them, change nothing of it.
C11_BodyStatusIgnored ==
    [][\A body \in ClaimingBodies :
          \A a \in WebhookBodyAnswers(body) :
             Webhook(body, a[1], a[2])
             => LET i == WebhookMatch(Identifiers(body)) IN
                /\ txs' = IF i = 0 THEN txs ELSE TxsAfterUpdate(i, a[1], a[2])
                /\ orders' = IF i = 0 THEN orders ELSE OrdersAfterUpdate(i, a[1], a[2])]_vars

\* the only webhook so far claimed "failed" and its transaction is
\* successful, with the order paid, as the gateway answered
C11_Witness ==
    /\ Len(notifs) = 1
    /\ notifs[1].processed
    /\ notifs[1].raw_data.message = "failed"
    /\ txs[notifs[1].transaction].status = "success"
    /\ orders[txs[notifs[1].transaction].order] = "paid"

\* C12: a write of the expiry sweep never changes a transaction whose stored
\* status is success, failed, cancelled, expired or refunded, also when a
\* status reconciliation settled the transaction after the sweep read it.
C12_SweepSparesTerminal ==
    [][\A p \in Procs :
          SweepWrite(p)
          => \A i \in TxIds :
                txs[i].status \in TerminalStatuses => txs'[i] = txs[i]]_vars

\* C13: when cleanup_expired_transactions has run, every transaction that was
\* initiated, pending or processing with payment_expires_at before the time
\* of the sweep is expired, and no transaction whose payment_expires_at is
\* still ahead has been marked expired.
C13_SweepMarksAllDue ==
    [][\A u \in Users :
          (is_staff(u) /\ Cleanup(u))
          => /\ \A i \in TxIds :
                   (/\ is_pending(txs[i])
                    /\ txs[i].payment_expires_at # NULL
                    /\ txs[i].payment_expires_at < clock)
                   => txs'[i].status = "expired"
             /\ \A i \in TxIds :
                   (txs[i].payment_expires_at > clock /\ txs[i].status # "expired")
                   => txs'[i].status # "expired"]_vars

\* C14: update_transaction_status, called by check_payment_status, moves a
\* transaction to success or failed only from initiated, pending or
\* processing: a transaction in success, failed, cancelled, expired or
\* refunded keeps its status whatever the gateway reports.
C14_SettledKeepsStatus ==
    [][\A u \in Users, l \in Lookups :
          (/\ LookupRow(l) # 0
           /\ txs[LookupRow(l)].status \in TerminalStatuses)
          => \A a \in LookupAnswers(u, l) :
                CheckPaymentStatus(u, l[1], l[2], a[1], a[2])
                => txs'[LookupRow(l)].status = txs[LookupRow(l)].status]_vars

C16_GatewayFailureRecorded ==
    [][\A p \in Procs :
          procs[p].pc = "inflight"
          => \A ans \in CreatePaymentAnswers \ {"token"} :
                PaymentReply(p, ans)
                => /\ txs'[procs[p].tx].status = "failed"
                   /\ txs'[procs[p].tx].error_details # 0
                   /\ last'.code \in {400, 500}]_vars

\* C17: every change of a transaction's status appends exactly one
\* PaymentStatusHistory entry, holding the old and the new status, and the
\* entries that exist are never modified or removed.
C17_HistoryAppended ==
    [][/\ Len(history') >= Len(history)
       /\ SubSeq(history', 1, Len(history)) = history
       /\ \A i \in TxIds :
             (i <= Len(txs') /\ txs'[i].status # txs[i].status)
             => /\ Len(history') = Len(history) + 1
                /\ history'[Len(history')] =
                      [transaction |-> i,
                       old_status |-> txs[i].status,
                       new_status |-> txs'[i].status]]_vars

\* C18: a PaymentTransaction that exists is never deleted, whatever is
\* requested, requests about its order included.
C18_NeverDeleted ==
    [][\A i \in TxIds :
          txs[i] # DeletedRow(i)
          => (i <= Len(txs') /\ txs'[i] # DeletedRow(i))]_vars

\* C19: create_payout for a recipient whose account is active creates a
\* local payout transaction without an order and then calls /v1/Transfert.
C19_PayoutRowThenTransfer ==
    [][\A u \in Users :
          (is_staff(u) /\ CreatePayout(u, "active"))
          => /\ Len(txs') = Len(txs) + 1
             /\ txs'[Len(txs')].payment_type = "payout"
             /\ txs'[Len(txs')].order = 0
             /\ "Transfert" \in last'.calls]_vars

C21_TokenCachedWithinLifetime ==
    [][/\ oauth'.token # 0
          => oauth'.cached_until - oauth'.cached_at <= oauth'.expires_in - CacheMargin
       /\ oauth'.from_cache
          => oauth'.returned_at < oauth'.cached_at + oauth'.expires_in
       /\ CachedToken # 0 => oauth'.calls = oauth.calls]_vars

\* C22: a create_payout or create_refund request of a user who is not an
\* administrator is refused and creates no transaction.
C22_AdminOnly ==
    [][\A u \in Users :
          ~is_staff(u)
          => /\ \A cust \in CustomerAnswers :
                   CreatePayout(u, cust) => (txs' = txs /\ last'.code = 403)
             /\ \A i \in TxIds, amt \in RefundAmounts, cust \in CustomerAnswers :
                   CreateRefund(u, i, amt, cust)
                   => (txs' = txs /\ last'.code \in {400, 403, 404})]_vars

\* C23: a create-payment request for an order whose status is paid is
\* rejected, by the serializer (400) or by the service (MonCashAPIError, 500),
\* and creates no transaction.
C23_PaidOrderRejected ==
    [][/\ \A p \in Procs, u \in Users, o \in Orders, amt \in {0, OrderTotal} :
             (orders[o] = "paid" /\ PaymentCheck(p, u, o, amt))
             => /\ txs' = txs
                /\ procs'[p].pc = "idle"
                /\ last'.op = "create_payment" /\ last'.code = 400
       /\ \A p \in Procs :
             (/\ procs[p].pc = "checked"
              /\ orders[procs[p].order] = "paid"
              /\ PaymentInsert(p))
             => /\ txs' = txs
                /\ procs'[p].pc = "idle"
                /\ last'.op = "create_payment" /\ last'.code = 500]_vars

\* the order was paid while a second request for it had passed the view's
\* checks; the service has refused that request
C23_Witness ==
    /\ orders[1] = "paid"
    /\ last.op = "create_payment"
    /\ last.why = "order_paid"
    /\ Len(txs) = 1

\* C24: through the customer order API an order that exists is never updated
\* or deleted: an update or delete request leaves every order, and the
\* transactions of the order, as they are.
C24_OrdersNotChangedByCustomer ==
    [][((\E u \in Users, o \in Orders, value \in OrderStatuses : OrderUpdate(u, o, value))
        \/ (\E u \in Users, o \in Orders : OrderDestroy(u, o)))
       => (orders' = orders /\ txs' = txs)]_vars

\* C25: the status of an order changes only along pending -> {paid,
\* cancelled}, paid -> {processing, cancelled}, processing -> {shipped,
\* cancelled}, shipped -> {delivered, cancelled}; an order in delivered or
\* cancelled keeps its status through vendor updates and reconciliations.
C25_OrderTransitions ==
    [][\A o \in Orders :
          orders'[o] # orders[o] => orders'[o] \in valid_transitions(orders[o])]_vars

\* C26: after an order is created from a cart, the stock_quantity of every
\* physical product of the order is lower by the ordered quantity, and a
\* product whose stock reaches zero has status out_of_stock.
C26_StockLowered ==
    [][\A o \in Orders :
          (orders[o] = "none" /\ orders'[o] = "pending")
          => \A p \in Products :
                (product_type(p) = "physical" /\ shop.stock[p] # NULL)
                => /\ shop'.items[o][p] = shop.cart[p]
                   /\ shop'.stock[p] = shop.stock[p] - shop.cart[p]
                   /\ (shop'.stock[p] = 0 /\ shop.cart[p] > 0)
                      => shop'.status[p] = "out_of_stock"]_vars

\* C27: each order has at most one payment-type transaction in status
\* success.
C27_OneSuccessfulPayment ==
    \A o \in Orders :
       Cardinality({i \in PaymentRows : txs[i].order = o /\ txs[i].status = "success"}) <= 1

\* C28: when both gateway lookups of update_transaction_status fail, or the
\* answer holds no payment details, the call returns False and the
\* transaction (status, payment_completed_at, gateway identifiers) and the
\* linked order are left as they are.
C28_NoDetailsNoChange ==
    [][\A u \in Users, l \in Lookups :
          LookupRow(l) # 0
          => \A a \in LookupAnswers(u, l) :
                (/\ ~HasPayment(PaymentDetails(txs[LookupRow(l)], a[1], a[2]))
                 /\ CheckPaymentStatus(u, l[1], l[2], a[1], a[2]))
                => /\ txs' = txs
                   /\ orders' = orders
                   /\ last'.why # "updated"]_vars

\* a status check of a pending payment that got no payment details
C28_Witness ==
    /\ Len(txs) = 1
    /\ txs[1].status = "pending"
    /\ last.op = "check_payment_status"
    /\ last.code = 200
    /\ last.why = "not_updated"
    /\ orders[1] = "pending"

\* C29: the successful refunds counted against one successful original
\* payment are not counted against another: no refund is in the existing
\* refunds of two different originals, also when their transaction_id is
\* empty.
C29_RefundCapsIndependent ==
    \A a, b \in PaymentRows :
       (a # b /\ txs[a].status = "success" /\ txs[b].status = "success")
       => ExistingRefunds(txs[a]) \cap ExistingRefunds(txs[b]) = {}

\* C30: while the sweep is run repeatedly and time advances, every
\* transaction in status initiated, pending or processing eventually reaches
\* success, failed or expired.
C30_EventuallySettled ==
    \A i \in 1..MaxPayments :
       (i <= Len(txs) /\ is_pending(txs[i]))
       ~> (i <= Len(txs) /\ txs[i].status \in {"success", "failed", "expired"})
====
